---- MODULE Spec2Model ----
(***************************************************************************)
(* portal: a desktop-portal broker on the D-Bus session bus.               *)
(*                                                                         *)
(* The model follows the most complete variant of the program              *)
(* (src/unnamed/part_000, lines 1-287): the exception runtime, the Request *)
(* object, the OpenURI / FileChooser / Settings handlers and the bootstrap *)
(* in run/main.  src/main.go holds the same Request and OpenFile code in   *)
(* an earlier layout (one portal struct).                                  *)
(*                                                                         *)
(* Strings are sequences of one-character strings, so that CutPrefix,      *)
(* ReplaceAll, Sprintf, TrimSpace and "+" are computed, not assumed.       *)
(***************************************************************************)
EXTENDS Naturals, Sequences, FiniteSets, TLC

----------------------------------------------------------------------------
\* Bounds of the model.

\* Number of bus method calls (OpenFile / OpenURI) delivered in one run.
MaxCalls == 2

\* Longest generated sender string in the newRequest exploration.
MaxSenderLen == 3

\* Longest generated handle_token string in the newRequest exploration.
MaxTokenLen == 2

\* Longest sender and token string in the pairwise newRequest exploration.
MaxPairLen == 1

\* Longest generated standard output in the file-picker exploration.
MaxOutLen == 3

----------------------------------------------------------------------------
\* Strings.

SeqsUpTo(A, n) == UNION {[1..k -> A] : k \in 0..n}

\* strings.HasPrefix
HasPrefix(s, p) == Len(s) >= Len(p) /\ SubSeq(s, 1, Len(p)) = p

\* strings.CutPrefix(s, p): s without the leading p, once, if it is there.
CutPrefix(s, p) == IF HasPrefix(s, p) THEN SubSeq(s, Len(p) + 1, Len(s)) ELSE s

\* strings.ReplaceAll(s, old, new), old non-empty: left to right, every
\* non-overlapping occurrence.
RECURSIVE ReplaceAll(_, _, _)
ReplaceAll(s, old, new) ==
    IF Len(s) < Len(old) THEN s
    ELSE IF HasPrefix(s, old)
         THEN new \o ReplaceAll(SubSeq(s, Len(old) + 1, Len(s)), old, new)
         ELSE <<Head(s)>> \o ReplaceAll(Tail(s), old, new)

\* unicode.IsSpace on the characters the model uses.
IsSpace(c) == c \in {" ", "\t", "\n", "\r"}

RECURSIVE TrimLeftSpace(_)
TrimLeftSpace(s) ==
    IF s # <<>> /\ IsSpace(Head(s)) THEN TrimLeftSpace(Tail(s)) ELSE s

RECURSIVE TrimRightSpace(_)
TrimRightSpace(s) ==
    IF s # <<>> /\ IsSpace(s[Len(s)])
    THEN TrimRightSpace(SubSeq(s, 1, Len(s) - 1))
    ELSE s

\* A trim that forgets the leading side.
TrimSpace_RightOnly(s) == TrimRightSpace(s)

\* strings.TrimSpace
TrimSpace(s) == TrimRightSpace(TrimLeftSpace(s))

----------------------------------------------------------------------------
\* Request: path derivation.

\* "/org/freedesktop/portal/desktop/request/": the constant part of the
\* format string of newRequest, up to the first %s.
RequestRoot ==
    <<"/", "o", "r", "g", "/", "f", "r", "e", "e", "d", "e", "s", "k", "t",
      "o", "p", "/", "p", "o", "r", "t", "a", "l", "/", "d", "e", "s", "k",
      "t", "o", "p", "/", "r", "e", "q", "u", "e", "s", "t", "/">>

\* The sanitizer with ReplaceAll cut down to the first occurrence.
RECURSIVE ReplaceFirst(_, _, _)
ReplaceFirst(s, old, new) ==
    IF Len(s) < Len(old) THEN s
    ELSE IF HasPrefix(s, old)
         THEN new \o SubSeq(s, Len(old) + 1, Len(s))
         ELSE <<Head(s)>> \o ReplaceFirst(Tail(s), old, new)

sanitize_FirstDotOnly(sender) == ReplaceFirst(CutPrefix(sender, <<":">>), <<".">>, <<"_">>)

\* A sanitizer that removes the dots.
sanitize_DropDots(sender) == ReplaceAll(CutPrefix(sender, <<":">>), <<".">>, <<>>)

\* newRequest, the two statements that rewrite sender.
sanitize(sender) == ReplaceAll(CutPrefix(sender, <<":">>), <<".">>, <<"_">>)

\* newRequest: the request's path (its conn is the one shared handle).
newRequest(sender, token) == RequestRoot \o sanitize(sender) \o <<"/">> \o token

----------------------------------------------------------------------------
\* Settings: values and the two read methods.
\*
\* A Go value is a sequence of layers, outermost first: "variant" for each
\* dbus.Variant around it, then the payload.  The nil interface is the
\* empty sequence; a nil *dbus.Variant is a typed pointer, not the nil
\* interface.

NilInterface == <<>>
NilVariantPtr == <<"(*dbus.Variant)(nil)">>
Uint32One == <<"uint32(1)">>

\* dbus.MakeVariant
MakeVariant(v) == <<"variant">> \o v

\* A box that also passes a nil pointer through.
box_NilPtrToo(v) == IF v = NilInterface \/ v = NilVariantPtr THEN NilVariantPtr ELSE MakeVariant(v)

\* box: v == nil compares the interface value, which is nil only for the
\* nil interface.
box(v) == IF v = NilInterface THEN NilVariantPtr ELSE MakeVariant(v)

\* Number of dbus.Variant layers of a value.
RECURSIVE BoxDepth(_)
BoxDepth(v) == IF v # <<>> /\ Head(v) = "variant" THEN 1 + BoxDepth(Tail(v)) ELSE 0

\* Setting names are sequences of atoms; each atom other than "." stands
\* for that run of dot-free characters.
ColorSchemePath ==
    <<"org", ".", "freedesktop", ".", "appearance", ".", "color-scheme">>

\* Settings.ReadOne
ReadOne(namespace, key) ==
    LET path == namespace \o <<".">> \o key
    IN  IF path = ColorSchemePath
        THEN [value |-> box(Uint32One), err |-> "nil"]
        ELSE [value |-> NilVariantPtr, err |-> "ErrMsgNoObject"]

\* Settings.Read
Read(namespace, key) ==
    LET r == ReadOne(namespace, key)
    IN  [value |-> box(r.value), err |-> r.err]

----------------------------------------------------------------------------
\* Inputs.

\* dbus.Sender values of the bus: unique names.
Senders == { <<":", "1", ".", "7">>, <<":", "1", ".", "4", "2">> }

\* A dbus.Variant of the options map: its signature and, for a string, the
\* string.  The zero Variant (a key that is absent) has no signature.
StringVariant(s) == [sig |-> "s", str |-> s]
Uint32Variant == [sig |-> "u", str |-> <<>>]
ZeroVariant == [sig |-> "", str |-> <<>>]

\* kv: a map is the set of its entries.
Entry(k, v) == [key |-> k, val |-> v]
EmptyKv == {}

\* A lookup that yields the empty string for a missing key and for a value
\* that is no string.
Lookup_OrEmptyString(options, k) ==
    IF \E e \in options : e.key = k /\ e.val.sig = "s"
    THEN (CHOOSE e \in options : e.key = k).val
    ELSE StringVariant(<<>>)

\* options[k]: the entry's value, or the zero Variant.
Lookup(options, k) ==
    IF \E e \in options : e.key = k
    THEN (CHOOSE e \in options : e.key = k).val
    ELSE ZeroVariant

TokenAbc == <<"a", "b", "c">>

\* Options maps callers send to OpenFile: with a handle_token string,
\* without the key, with a handle_token that is no string.
OptionsBags ==
    { {Entry("handle_token", StringVariant(TokenAbc))},
      EmptyKv,
      {Entry("handle_token", Uint32Variant)} }

\* Standard output of the file picker on exit 0: the chosen path and a
\* line feed.
PickerOutputs == { <<"/", "f", "\n">> }

\* Generated outputs of the picker exploration, with a path that holds a
\* blank and is surrounded by white space among them.
OutputAlphabet == {" ", "\n", "/", "a"}
WideOutputs ==
    SeqsUpTo(OutputAlphabet, MaxOutLen)
      \cup PickerOutputs
      \cup { <<" ", "\n", "/", "a", " ", "b", " ", "\n">> }

\* Generated senders and tokens of the newRequest exploration, with the
\* bus's unique names and the plain token among them.
SenderAlphabet == {":", ".", "1", "/"}
TokenAlphabet == {"a", "/"}
WideSenders == SeqsUpTo(SenderAlphabet, MaxSenderLen) \cup Senders
WideTokens == SeqsUpTo(TokenAlphabet, MaxTokenLen) \cup {TokenAbc}

\* Senders and tokens of the pairwise exploration: unvalidated strings.
PairSenders == SeqsUpTo({":", ".", "_", "/", "a"}, MaxPairLen)
PairTokens == SeqsUpTo({"a", "/"}, MaxPairLen)

\* Namespaces and keys of the Settings exploration: every way to cut the
\* one setting's name at a dot, and names that are not in the table.
Namespaces ==
    { SubSeq(ColorSchemePath, 1, n) : n \in {1, 3, 5} }
      \cup { <<"org">> \o <<".">> \o <<"gnome">>, <<>> }
Keys ==
    { SubSeq(ColorSchemePath, n, Len(ColorSchemePath)) : n \in {3, 5, 7} }
      \cup { <<"contrast">>, <<>> }

----------------------------------------------------------------------------
\* The exception runtime.

\* What a callback ends with: nothing, a thrown *Exception, or another
\* panic value (a runtime error).
NoPanic == [kind |-> "none", what |-> ""]
Exception(what) == [kind |-> "Exception", what |-> what]
RuntimePanic(what) == [kind |-> "runtime", what |-> what]

\* A try whose recover is missing: every panic leaves it.
try_NoRecover(p) == [err |-> "nil", repanic |-> p.kind # "none"]

\* A try that turns every panic into its result.
try_CatchAll(p) ==
    [err |-> IF p.kind = "none" THEN "nil" ELSE p.what, repanic |-> FALSE]

\* try(cb): err is the *Exception cb threw ("nil": none); a panic that is
\* no *Exception is raised again.
try(p) ==
    [err |-> IF p.kind = "Exception" THEN p.what ELSE "nil",
     repanic |-> p.kind \notin {"none", "Exception"}]

\* exc.catch(cb): how many times cb runs.
catch(exc) == IF exc # "nil" THEN 1 ELSE 0

\* The messages of the exceptions the program throws, and panics of the
\* Go runtime.
ExceptionMessages ==
    { "can not connect session bus", "can not bind properties",
      "can not request name", "name already taken",
      "can not send response", "can not find xdg-open-dispatch",
      "xdg-open-dispatch" }

RuntimePanics ==
    { "interface conversion", "nil pointer dereference", "index out of range" }

\* The ways a callback of try can end.
PanicValues ==
    {NoPanic} \cup {Exception(w) : w \in ExceptionMessages}
              \cup {RuntimePanic(w) : w \in RuntimePanics}

----------------------------------------------------------------------------
\* State.

VARIABLES
    main,       \* where main/run stands: the next bootstrap step, "serving"
                \* (select {}), "exited" (os.Exit) or "crashed" (a panic
                \* nothing recovered)
    exitCode,   \* the process's exit status, once exited or crashed
    stderr,     \* what fatal or the runtime wrote before the exit
    conn,       \* the bus session handle: "nil", "open", "closed"
    exported,   \* interfaces exported on /org/freedesktop/portal/desktop
    props,      \* the exported property table: [iface, name, value]
    nameOwned,  \* the process owns org.freedesktop.portal.Desktop
    calls,      \* the method calls delivered so far, each with its handler's
                \* and its detached task's position
    signals,    \* the signals emitted on the bus, in order
    log,        \* lines written with log.Println: [call, line]
    replyOne,   \* the reply of the last Settings.ReadOne call, if any
    replyRead,  \* the reply of the last Settings.Read call, if any
    busReply,   \* what the bus library answered to run's last call of it
    tried       \* the try(cb).catch(...) evaluations made so far

procVars == <<main, exitCode, stderr>>
busVars == <<conn, exported, props, nameOwned, busReply>>
callVars == <<calls, signals, log>>
settingsVars == <<replyOne, replyRead>>
vars == <<main, exitCode, stderr, conn, exported, props, nameOwned,
          calls, signals, log, replyOne, replyRead, busReply, tried>>

ObjectRoot == "/org/freedesktop/portal/desktop"
ServiceName == "org.freedesktop.portal.Desktop"
IfaceOpenURI == "org.freedesktop.portal.OpenURI"
IfaceFileChooser == "org.freedesktop.portal.FileChooser"
IfaceSettings == "org.freedesktop.portal.Settings"
ResponseSignal == "org.freedesktop.portal.Request.Response"

\* The property table of run.
VersionProps ==
    { [iface |-> IfaceOpenURI, name |-> "version", value |-> 4],
      [iface |-> IfaceFileChooser, name |-> "version", value |-> 3],
      [iface |-> IfaceSettings, name |-> "version", value |-> 1] }

NoPath == <<>>

Alive == main \notin {"exited", "crashed"}

\* The bus delivers a call to an interface once it is exported on an open
\* connection of a live process.
Dispatches(iface) == Alive /\ conn = "open" /\ iface \in exported

Init ==
    /\ main = "sessionBus"
    /\ exitCode = 0
    /\ stderr = <<>>
    /\ conn = "nil"
    /\ exported = {}
    /\ props = {}
    /\ nameOwned = FALSE
    /\ calls = <<>>
    /\ signals = <<>>
    /\ log = {}
    /\ replyOne = {}
    /\ replyRead = {}
    /\ busReply = "none"
    /\ tried = {}

----------------------------------------------------------------------------
\* Bootstrap: main, run, sessionBus, bind.

\* main: try(run).catch(fatal(1, "abort")) for an exception thrown in run.
\* deferred tells whether run's defer conn.Close() is registered.
Abort(what, deferred) ==
    LET r == try(Exception(what))
    IN  /\ main' = IF r.repanic THEN "crashed" ELSE "exited"
        /\ exitCode' = IF r.repanic THEN 2 ELSE 1
        /\ stderr' = IF r.repanic THEN <<"panic", what>> ELSE <<"abort", r.err>>
        /\ conn' = IF deferred THEN "closed" ELSE conn
        /\ UNCHANGED <<exported, props, nameOwned>>

\* sessionBus: dbus.ConnectSessionBus succeeds or fails.
sessionBus ==
    /\ main = "sessionBus"
    /\ \/ /\ conn' = "open"
          /\ main' = "exportOpenURI"
          /\ busReply' = "connected"
          /\ UNCHANGED <<exitCode, stderr, exported, props, nameOwned>>
       \/ /\ busReply' = "connectError"
          /\ Abort("can not connect session bus", FALSE)
    /\ UNCHANGED <<callVars, settingsVars, tried>>

\* A run that goes from the FileChooser export straight to the property
\* table.
exportHandler_SkipsSettings ==
    /\ main \in {"exportOpenURI", "exportFileChooser"}
    /\ exported' = exported \cup
         { CASE main = "exportOpenURI" -> IfaceOpenURI
             [] main = "exportFileChooser" -> IfaceFileChooser }
    /\ main' = CASE main = "exportOpenURI" -> "exportFileChooser"
                 [] main = "exportFileChooser" -> "exportProps"
    /\ UNCHANGED <<exitCode, stderr, conn, props, nameOwned, busReply>>
    /\ UNCHANGED <<callVars, settingsVars, tried>>

\* run: the three conn.Export calls, in order (their error is dropped; the
\* path and the interface names are valid constants).
exportHandler ==
    /\ main \in {"exportOpenURI", "exportFileChooser", "exportSettings"}
    /\ exported' = exported \cup
         { CASE main = "exportOpenURI" -> IfaceOpenURI
             [] main = "exportFileChooser" -> IfaceFileChooser
             [] main = "exportSettings" -> IfaceSettings }
    /\ main' = CASE main = "exportOpenURI" -> "exportFileChooser"
                 [] main = "exportFileChooser" -> "exportSettings"
                 [] main = "exportSettings" -> "exportProps"
    /\ UNCHANGED <<exitCode, stderr, conn, props, nameOwned, busReply>>
    /\ UNCHANGED <<callVars, settingsVars, tried>>

\* run: prop.Export succeeds or fails.
exportProps ==
    /\ main = "exportProps"
    /\ \/ /\ props' = VersionProps
          /\ main' = "bind"
          /\ busReply' = "propsExported"
          /\ UNCHANGED <<exitCode, stderr, conn, exported, nameOwned>>
       \/ /\ busReply' = "propsError"
          /\ Abort("can not bind properties", TRUE)
    /\ UNCHANGED <<callVars, settingsVars, tried>>

\* The flags bind passes to RequestName.
NameFlagDoNotQueue == "DoNotQueue"

\* A bind that asks for the name with no flag.
bindFlags_None == {}

bindFlags == {NameFlagDoNotQueue}

\* conn.RequestName: the call fails ("error"), or the bus answers. It
\* makes the caller the primary owner if the name is free; if it is owned,
\* it answers "Exists" to a caller that does not queue and puts any other
\* caller in the name's queue ("InQueue").
RequestName(flags) ==
    {"error", "PrimaryOwner"}
      \cup (IF NameFlagDoNotQueue \in flags THEN {"Exists"} ELSE {"InQueue"})

\* bind: an error of RequestName is thrown, and so is every reply that is
\* not primary owner.
bind ==
    /\ main = "bind"
    /\ \E reply \in RequestName(bindFlags) :
         /\ busReply' = reply
         /\ IF reply = "PrimaryOwner"
            THEN /\ nameOwned' = TRUE
                 /\ main' = "serving"
                 /\ UNCHANGED <<exitCode, stderr, conn, exported, props>>
            ELSE IF reply = "error"
                 THEN Abort("can not request name", TRUE)
                 ELSE Abort("name already taken", TRUE)
    /\ UNCHANGED <<callVars, settingsVars, tried>>

----------------------------------------------------------------------------
\* Calls.

FileScheme == <<"f", "i", "l", "e", ":", "/", "/">>

\* One delivered method call:
\*   hpc     the handler: "go" (the go statement ran, the return has not),
\*           "returned", "panicked"
\*   retPath, retErr   the handler's reply, once returned
\*   req     the path of the Request the handler built
\*   task    the detached goroutine: "none", "launched", "running" (it
\*           waits for the helper), "exited" (the helper run has ended),
\*           "done"
\*   helper  how the helper run ended: "none", "notfound", "spawnfail",
\*           "exit0", "exitN"
\*   out     the helper's standard output
\*   sent    conn.Emit of the Response: "none", "ok", "failed"
Call(kind, sender, options, hpc, req, task) ==
    [kind |-> kind, sender |-> sender, options |-> options, hpc |-> hpc,
     retPath |-> NoPath, retErr |-> "", req |-> req, task |-> task,
     helper |-> "none", out |-> <<>>, sent |-> "none"]

CallIds == DOMAIN calls

Line(i, text) == [call |-> i, line |-> text]

\* The end of a detached task's try(...).catch(...): a caught exception
\* is logged with the handler's prefix; any other panic ends the process.
\* logged is the log as the task's body left it.
TaskBoundary(i, p, prefix, logged) ==
    LET r == try(p)
    IN  IF r.repanic
        THEN /\ main' = "crashed"
             /\ exitCode' = 2
             /\ stderr' = <<"panic", p.what>>
             /\ log' = logged
        ELSE /\ UNCHANGED procVars
             /\ log' = IF r.err # "nil"
                       THEN logged \cup {Line(i, <<prefix, r.err>>)}
                       ELSE logged

----------------------------------------------------------------------------
\* FileChooser.OpenFile.

\* OpenFile, up to and with the go statement: the token is read with an
\* unchecked type assertion, the Request is built, the task is launched.
OpenFile(sender, options) ==
    /\ Dispatches(IfaceFileChooser)
    /\ Len(calls) < MaxCalls
    /\ LET tok == Lookup(options, "handle_token")
           i == Len(calls) + 1
       IN  /\ log' = log \cup {Line(i, <<"enter OpenFile">>)}
           /\ IF tok.sig = "s"
              THEN /\ calls' = Append(calls,
                         Call("OpenFile", sender, options, "go",
                              newRequest(sender, tok.str), "launched"))
                   /\ UNCHANGED procVars
              ELSE /\ calls' = Append(calls,
                         Call("OpenFile", sender, options, "panicked",
                              NoPath, "none"))
                   /\ main' = "crashed"
                   /\ exitCode' = 2
                   /\ stderr' = <<"panic", "interface conversion">>
    /\ UNCHANGED <<busVars, signals, settingsVars, tried>>

\* The reply of OpenFile.
OpenFileReply(c) == [path |-> c.req, err |-> "nil"]

\* A handler that returns only once its task is over.
OpenFileReturn_Waits(i) ==
    /\ Alive
    /\ i \in CallIds
    /\ calls[i].kind = "OpenFile"
    /\ calls[i].hpc = "go"
    /\ calls[i].task = "done"
    /\ calls' = [calls EXCEPT ![i].hpc = "returned",
                              ![i].retPath = OpenFileReply(calls[i]).path,
                              ![i].retErr = OpenFileReply(calls[i]).err]
    /\ UNCHANGED <<procVars, busVars, signals, log, settingsVars, tried>>

\* OpenFile: return req.path, nil.
OpenFileReturn(i) ==
    /\ Alive
    /\ i \in CallIds
    /\ calls[i].kind = "OpenFile"
    /\ calls[i].hpc = "go"
    /\ calls' = [calls EXCEPT ![i].hpc = "returned",
                              ![i].retPath = OpenFileReply(calls[i]).path,
                              ![i].retErr = OpenFileReply(calls[i]).err]
    /\ UNCHANGED <<procVars, busVars, signals, log, settingsVars, tried>>

\* A task that starts its picker only when no other picker runs.
zenityStart_OneAtATime(i) ==
    /\ Alive
    /\ i \in CallIds
    /\ calls[i].kind = "OpenFile"
    /\ calls[i].task = "launched"
    /\ \A j \in CallIds : calls[j].task # "running"
    /\ \/ calls' = [calls EXCEPT ![i].task = "running"]
       \/ calls' = [calls EXCEPT ![i].task = "exited", ![i].helper = "spawnfail"]
    /\ UNCHANGED <<procVars, busVars, signals, log, settingsVars, tried>>

\* The task: exec.Command("zenity", "--file-selection").Output() starts
\* the picker, or fails to.
zenityStart(i) ==
    /\ Alive
    /\ i \in CallIds
    /\ calls[i].kind = "OpenFile"
    /\ calls[i].task = "launched"
    /\ \/ calls' = [calls EXCEPT ![i].task = "running"]
       \/ calls' = [calls EXCEPT ![i].task = "exited", ![i].helper = "spawnfail"]
    /\ UNCHANGED <<procVars, busVars, signals, log, settingsVars, tried>>

\* The picker exits: status 0 with its output, or another status.
zenityExit(i, outputs) ==
    /\ Alive
    /\ i \in CallIds
    /\ calls[i].kind = "OpenFile"
    /\ calls[i].task = "running"
    /\ \/ \E o \in outputs :
            calls' = [calls EXCEPT ![i].task = "exited", ![i].helper = "exit0",
                                   ![i].out = o]
       \/ calls' = [calls EXCEPT ![i].task = "exited", ![i].helper = "exitN"]
    /\ UNCHANGED <<procVars, busVars, signals, log, settingsVars, tried>>

\* The arguments of the one req.response call of the task: (1, kv{}) when
\* Output returned an error, (0, {"uris": ["file://" + trimmed]}) else.
OpenFileResponse(helper, out) ==
    IF helper # "exit0"
    THEN [errcode |-> 1, results |-> EmptyKv]
    ELSE [errcode |-> 0,
          results |-> {Entry("uris", << FileScheme \o TrimSpace(out) >>)}]

\* A response that is skipped for the failure code.
response_NotOnFailure(sigs, i, path, errcode, results) ==
    IF errcode = 1
    THEN sigs
    ELSE Append(sigs, [call |-> i, path |-> path, name |-> ResponseSignal,
                       errcode |-> errcode, results |-> results])

\* A response that emits its signal twice.
response_Twice(sigs, i, path, errcode, results) ==
    LET sig == [call |-> i, path |-> path, name |-> ResponseSignal,
                errcode |-> errcode, results |-> results]
    IN  Append(Append(sigs, sig), sig)

\* request.response when conn.Emit succeeds: the signal is on the bus.
response(sigs, i, path, errcode, results) ==
    Append(sigs, [call |-> i, path |-> path, name |-> ResponseSignal,
                  errcode |-> errcode, results |-> results])

\* A catch callback that answers the request with the failure code.
OpenFileCatch_Responds(sigs, i, path) == response(sigs, i, path, 1, EmptyKv)

\* The catch callback of the OpenFile task: it logs the exception and
\* leaves the signals on the bus as they are.
OpenFileCatch(sigs, i, path) == sigs

\* A task that clears the path of its Request once the Response is sent.
respond_ClearsPath(i) ==
    /\ Alive
    /\ i \in CallIds
    /\ calls[i].kind = "OpenFile"
    /\ calls[i].task = "exited"
    /\ LET c == calls[i]
           r == OpenFileResponse(c.helper, c.out)
           errLine == IF c.helper # "exit0" THEN {Line(i, <<c.helper>>)} ELSE {}
       IN  \/ /\ signals' = response(signals, i, c.req, r.errcode, r.results)
              /\ calls' = [calls EXCEPT ![i].task = "done", ![i].sent = "ok",
                                        ![i].req = NoPath]
              /\ log' = log \cup errLine
              /\ UNCHANGED procVars
           \/ /\ signals' = signals
              /\ calls' = [calls EXCEPT ![i].task = "done", ![i].sent = "failed"]
              /\ TaskBoundary(i, Exception("can not send response"),
                              "in OpenFile", log \cup errLine)
    /\ UNCHANGED <<busVars, settingsVars, tried>>

\* The task after Output returned: it logs the error if there is one,
\* calls req.response once, and a failed Emit is thrown, caught at the
\* task's boundary and logged.
respond(i) ==
    /\ Alive
    /\ i \in CallIds
    /\ calls[i].kind = "OpenFile"
    /\ calls[i].task = "exited"
    /\ LET c == calls[i]
           r == OpenFileResponse(c.helper, c.out)
           errLine == IF c.helper # "exit0" THEN {Line(i, <<c.helper>>)} ELSE {}
       IN  \/ /\ signals' = response(signals, i, c.req, r.errcode, r.results)
              /\ calls' = [calls EXCEPT ![i].task = "done", ![i].sent = "ok"]
              /\ log' = log \cup errLine
              /\ UNCHANGED procVars
           \/ /\ signals' = OpenFileCatch(signals, i, c.req)
              /\ calls' = [calls EXCEPT ![i].task = "done", ![i].sent = "failed"]
              /\ TaskBoundary(i, Exception("can not send response"),
                              "in OpenFile", log \cup errLine)
    /\ UNCHANGED <<busVars, settingsVars, tried>>

----------------------------------------------------------------------------
\* OpenURI.OpenURI.

\* OpenURI, up to and with the go statement.
OpenURI ==
    /\ Dispatches(IfaceOpenURI)
    /\ Len(calls) < MaxCalls
    /\ calls' = Append(calls, Call("OpenURI", <<>>, EmptyKv, "go", NoPath, "launched"))
    /\ log' = log \cup {Line(Len(calls) + 1, <<"enter OpenURI">>)}
    /\ UNCHANGED <<procVars, busVars, signals, settingsVars, tried>>

\* A reply of OpenURI that carries a request path.
OpenURIReply_WithPath(c) == [path |-> newRequest(c.sender, <<>>), err |-> "nil"]

\* The reply of OpenURI: a nil *dbus.Error and nothing else.
OpenURIReply(c) == [path |-> NoPath, err |-> "nil"]

\* OpenURI: return nil.
OpenURIReturn(i) ==
    /\ Alive
    /\ i \in CallIds
    /\ calls[i].kind = "OpenURI"
    /\ calls[i].hpc = "go"
    /\ calls' = [calls EXCEPT ![i].hpc = "returned",
                              ![i].retPath = OpenURIReply(calls[i]).path,
                              ![i].retErr = OpenURIReply(calls[i]).err]
    /\ UNCHANGED <<procVars, busVars, signals, log, settingsVars, tried>>

\* xdgOpen, lookPath: the launcher is on the search path and is started,
\* or it is not and the exception ends the task.
lookPath(i) ==
    /\ Alive
    /\ i \in CallIds
    /\ calls[i].kind = "OpenURI"
    /\ calls[i].task = "launched"
    /\ \/ /\ calls' = [calls EXCEPT ![i].task = "running"]
          /\ UNCHANGED <<procVars, log>>
       \/ /\ calls' = [calls EXCEPT ![i].task = "done", ![i].helper = "notfound"]
          /\ TaskBoundary(i, Exception("can not find xdg-open-dispatch"),
                          "in OpenURI", log)
    /\ UNCHANGED <<busVars, signals, settingsVars, tried>>

\* xdgOpen, cmd.Run returns: nil on exit 0, an error otherwise, which is
\* thrown and ends the task.
xdgOpen(i) ==
    /\ Alive
    /\ i \in CallIds
    /\ calls[i].kind = "OpenURI"
    /\ calls[i].task = "running"
    /\ \/ /\ calls' = [calls EXCEPT ![i].task = "done", ![i].helper = "exit0"]
          /\ TaskBoundary(i, NoPanic, "in OpenURI", log)
       \/ /\ calls' = [calls EXCEPT ![i].task = "done", ![i].helper = "exitN"]
          /\ TaskBoundary(i, Exception("xdg-open-dispatch"), "in OpenURI", log)
    /\ UNCHANGED <<busVars, signals, settingsVars, tried>>

----------------------------------------------------------------------------
\* Settings.

SettingsReply(namespace, key, r) ==
    [namespace |-> namespace, key |-> key, value |-> r.value, err |-> r.err]

\* A Settings.ReadOne call and its reply.
ReadOneCall(namespace, key) ==
    /\ Dispatches(IfaceSettings)
    /\ replyOne' = {SettingsReply(namespace, key, ReadOne(namespace, key))}
    /\ log' = log \cup {Line(0, <<"enter ReadOne">>)}
    /\ UNCHANGED <<procVars, busVars, calls, signals, replyRead, tried>>

\* A Settings.Read call and its reply.
ReadCall(namespace, key) ==
    /\ Dispatches(IfaceSettings)
    /\ replyRead' = {SettingsReply(namespace, key, Read(namespace, key))}
    /\ log' = log \cup {Line(0, <<"enter ReadOne">>)}
    /\ UNCHANGED <<procVars, busVars, calls, signals, replyOne, tried>>

----------------------------------------------------------------------------
\* Specifications.

Bootstrap == sessionBus \/ exportHandler \/ exportProps \/ bind

\* The portal under OpenFile calls from the given senders and OpenURI
\* calls.
Serve(senders) ==
    \/ Bootstrap
    \/ \E s \in senders, o \in OptionsBags : OpenFile(s, o)
    \/ OpenURI
    \/ \E i \in 1..MaxCalls :
         \/ OpenFileReturn(i)
         \/ zenityStart(i)
         \/ zenityExit(i, PickerOutputs)
         \/ respond(i)
         \/ OpenURIReturn(i)
         \/ lookPath(i)
         \/ xdgOpen(i)

Next == Serve(Senders)

Spec == Init /\ [][Next]_vars

\* Go schedules every runnable goroutine: a handler returns, a task takes
\* its next step.  A helper process owes no exit, and no caller owes a call.
Fairness ==
    \A i \in 1..MaxCalls :
        /\ WF_vars(OpenFileReturn(i))
        /\ WF_vars(zenityStart(i))
        /\ WF_vars(respond(i))
        /\ WF_vars(OpenURIReturn(i))
        /\ WF_vars(lookPath(i))

\* The portal with fair goroutines, under calls of one sender (the sender
\* has no part in what a task does next).
NextFair == Serve({ <<":", "1", ".", "7">> })

FairSpec == Init /\ [][NextFair]_vars /\ Fairness

\* One OpenFile call with a generated sender and token, up to its return.
NextRequest ==
    \/ Bootstrap
    \/ \E s \in WideSenders, t \in WideTokens :
         /\ calls = <<>>
         /\ OpenFile(s, {Entry("handle_token", StringVariant(t))})
    \/ \E i \in 1..MaxCalls : OpenFileReturn(i)

SpecRequest == Init /\ [][NextRequest]_vars

\* Two OpenFile calls with unvalidated senders and tokens, up to their
\* return.
NextRequestPair ==
    \/ Bootstrap
    \/ \E s \in PairSenders, t \in PairTokens :
         /\ Len(calls) < 2
         /\ OpenFile(s, {Entry("handle_token", StringVariant(t))})
    \/ \E i \in 1..MaxCalls : OpenFileReturn(i)

SpecRequestPair == Init /\ [][NextRequestPair]_vars

\* One OpenFile call and its task, with generated picker outputs.
NextPicker ==
    \/ Bootstrap
    \/ \E s \in Senders :
         /\ calls = <<>>
         /\ OpenFile(s, {Entry("handle_token", StringVariant(TokenAbc))})
    \/ \E i \in 1..MaxCalls :
         \/ OpenFileReturn(i)
         \/ zenityStart(i)
         \/ zenityExit(i, WideOutputs)
         \/ respond(i)

SpecPicker == Init /\ [][NextPicker]_vars

\* The portal under Settings calls.
NextSettings ==
    \/ Bootstrap
    \/ \E n \in Namespaces, k \in Keys : ReadOneCall(n, k)
    \/ \E n \in Namespaces, k \in Keys : ReadCall(n, k)

SpecSettings == Init /\ [][NextSettings]_vars

\* try(cb).catch(f) for a callback that ends with p: what try returned or
\* raised again, and how often f ran (not at all if try did not return).
TryCall(p) ==
    /\ tried' = tried \cup
         { [cb |-> p,
            ret |-> try(p).err,
            propagated |-> try(p).repanic,
            caught |-> IF try(p).repanic THEN 0 ELSE catch(try(p).err)] }
    /\ UNCHANGED <<procVars, busVars, callVars, settingsVars>>

\* The exception runtime alone, under every way a callback can end.
NextTry == \E p \in PanicValues : TryCall(p)

SpecTry == Init /\ [][NextTry]_vars

----------------------------------------------------------------------------
\* Properties.

\* The Response signals emitted for the Request of call i.
NumSignals(i) == Cardinality({k \in DOMAIN signals : signals[k].call = i})

IsOpenFile(i) == i \in CallIds /\ calls[i].kind = "OpenFile"
IsOpenURI(i) == i \in CallIds /\ calls[i].kind = "OpenURI"

\* The handle_token string of a call's options.
TokenOf(c) == Lookup(c.options, "handle_token").str

\* C1: at most one Response signal is ever emitted for the Request of an
\* OpenFile call, whatever the interleaving with other OpenFile and OpenURI
\* calls and whatever the helper and the send do.
C1_AtMostOneResponse ==
    \A i \in CallIds : calls[i].kind = "OpenFile" => NumSignals(i) <= 1

\* Two OpenFile calls have run to their end, one with its Response on the
\* bus and one whose send failed.
C1_Witness ==
    \E i, j \in CallIds :
        /\ IsOpenFile(i) /\ calls[i].task = "done" /\ calls[i].sent = "ok"
        /\ NumSignals(i) = 1
        /\ IsOpenFile(j) /\ calls[j].task = "done" /\ calls[j].sent = "failed"

\* C2, as stated: an OpenFile run whose helper finished ends with exactly
\* one Response signal, never with none.
C2_ExactlyOneResponse ==
    \A i \in CallIds :
        (calls[i].kind = "OpenFile" /\ calls[i].task = "done") => NumSignals(i) = 1

\* The log line of a send that failed, for call i.
SendFailureLogged(i) ==
    Line(i, <<"in OpenFile", "can not send response">>) \in log

\* C2, amended: while the process runs, a finished helper run is followed
\* by the end of the task, which made one send; the Request then has one
\* Response if the send succeeded, and none and a log line if it failed.
C2_RespondsUnlessSendFails ==
    /\ \A i \in 1..MaxCalls :
          (IsOpenFile(i) /\ calls[i].task = "exited")
             ~> (~Alive \/ (IsOpenFile(i) /\ calls[i].task = "done"))
    /\ [](\A i \in CallIds :
            (calls[i].kind = "OpenFile" /\ calls[i].task = "done") =>
               \/ calls[i].sent = "ok" /\ NumSignals(i) = 1
               \/ /\ calls[i].sent = "failed"
                  /\ NumSignals(i) = 0
                  /\ SendFailureLogged(i))

\* An OpenFile run has ended with its Response on the bus, and another has
\* ended without one because the send failed.
C2_Witness ==
    \E i, j \in CallIds :
        /\ IsOpenFile(i) /\ calls[i].task = "done" /\ NumSignals(i) = 1
        /\ calls[i].helper = "exit0"
        /\ IsOpenFile(j) /\ calls[j].task = "done" /\ NumSignals(j) = 0
        /\ calls[j].helper = "exitN" /\ SendFailureLogged(j)

\* t is s without its leading and trailing white space, said without the
\* trimming functions: s is white space, t, white space, and t neither
\* starts nor ends with white space.
IsTrimOf(t, s) ==
    \E a \in 0..Len(s) :
        /\ a + Len(t) <= Len(s)
        /\ SubSeq(s, a + 1, a + Len(t)) = t
        /\ \A k \in 1..a : IsSpace(s[k])
        /\ \A k \in (a + Len(t) + 1)..Len(s) : IsSpace(s[k])
        /\ t # <<>> => (~IsSpace(t[1]) /\ ~IsSpace(t[Len(t)]))

\* u is "file://" followed by the trimmed output.
IsFileUriOf(u, out) ==
    /\ HasPrefix(u, FileScheme)
    /\ IsTrimOf(SubSeq(u, Len(FileScheme) + 1, Len(u)), out)

\* C3: every Response of OpenFile is (0, {"uris": [u]}), u the one string
\* "file://" + trimmed output, when the picker exited 0, and (1, {}) when
\* the spawn failed or the exit status was not 0; errcode 0 exactly when
\* the helper succeeded.
C3_ResponseShape ==
    \A k \in DOMAIN signals :
        LET s == signals[k]
            c == calls[s.call]
        IN  /\ s.name = ResponseSignal
            /\ c.helper \in {"exit0", "spawnfail", "exitN"}
            /\ c.helper = "exit0" =>
                 /\ s.errcode = 0
                 /\ \E e \in s.results :
                      /\ s.results = {e}
                      /\ e.key = "uris"
                      /\ Len(e.val) = 1
                      /\ IsFileUriOf(e.val[1], c.out)
            /\ c.helper \in {"spawnfail", "exitN"} =>
                 /\ s.errcode = 1
                 /\ s.results = {}
            /\ s.errcode = 0 <=> c.helper = "exit0"

\* The picker printed a path with a blank in it, white space around it,
\* and the Response carries file:///a b.
C3_Witness ==
    \E k \in DOMAIN signals :
        /\ calls[signals[k].call].out = <<" ", "\n", "/", "a", " ", "b", " ", "\n">>
        /\ signals[k].errcode = 0
        /\ signals[k].results =
             {Entry("uris", << FileScheme \o <<"/", "a", " ", "b">> >>)}

\* C4, as stated: the handler has returned the path before the Response
\* is emitted on it.
C4_ReturnBeforeResponse ==
    \A k \in DOMAIN signals : calls[signals[k].call].hpc = "returned"

\* The sender with one leading ":" removed and every "." turned into "_",
\* said character by character.
Stripped(s) == IF s # <<>> /\ s[1] = ":" THEN Tail(s) ELSE s
Sanitized(s) ==
    [k \in 1..Len(Stripped(s)) |->
        IF Stripped(s)[k] = "." THEN "_" ELSE Stripped(s)[k]]

HasSlash(s) == \E k \in 1..Len(s) : s[k] = "/"

\* Requests i and j differ in their token or in their sanitized sender.
DifferentIdentity(i, j) ==
    \/ TokenOf(calls[i]) # TokenOf(calls[j])
    \/ Sanitized(calls[i].sender) # Sanitized(calls[j].sender)

\* C5, as stated: the path is a function of (sender, token), and two
\* requests whose tokens differ or whose sanitized senders differ have
\* different paths, for arbitrary strings.
C5_PathInjective ==
    \A i, j \in CallIds :
        /\ (calls[i].sender = calls[j].sender /\ TokenOf(calls[i]) = TokenOf(calls[j]))
             => calls[i].req = calls[j].req
        /\ DifferentIdentity(i, j) => calls[i].req # calls[j].req

\* C5, amended: the path is a function of (sender, token), and two
\* requests whose tokens differ or whose sanitized senders differ have
\* different paths when their senders hold no "/" or their tokens hold
\* no "/".
C5_PathInjectiveWithoutSlash ==
    \A i, j \in CallIds :
        /\ (calls[i].sender = calls[j].sender /\ TokenOf(calls[i]) = TokenOf(calls[j]))
             => calls[i].req = calls[j].req
        /\ ( /\ DifferentIdentity(i, j)
             /\ \/ ~HasSlash(calls[i].sender) /\ ~HasSlash(calls[j].sender)
                \/ ~HasSlash(TokenOf(calls[i])) /\ ~HasSlash(TokenOf(calls[j])) )
             => calls[i].req # calls[j].req

\* Two requests of senders without "/", one with the token "/" and one
\* with the empty token, have different paths; and two requests of one
\* sender and one token have the same path.
C5_Witness ==
    \E i, j \in CallIds :
        /\ i # j
        /\ calls[i].sender = <<".">> /\ TokenOf(calls[i]) = <<"/">>
        /\ calls[j].sender = <<"_">> /\ TokenOf(calls[j]) = <<>>
        /\ calls[i].req # calls[j].req
        /\ calls[i].req = RequestRoot \o <<"_", "/", "/">>

\* "/org/freedesktop/portal/desktop/request/1_7/abc"
Path_1_7_abc == RequestRoot \o <<"1", "_", "7", "/", "a", "b", "c">>

\* C6: the Request's path is the root, the sanitized sender, "/" and the
\* token as it came; ":1.42" gives the segment 1_42, ":1.7" with "abc"
\* gives .../request/1_7/abc; and that path is what OpenFile returns.
C6_DerivedPath ==
    \A i \in CallIds :
        LET c == calls[i]
        IN  (c.kind = "OpenFile" /\ c.hpc # "panicked") =>
              /\ c.req = RequestRoot \o Sanitized(c.sender) \o <<"/">> \o TokenOf(c)
              /\ c.sender = <<":", "1", ".", "4", "2">> =>
                   c.req = RequestRoot \o <<"1", "_", "4", "2", "/">> \o TokenOf(c)
              /\ (c.sender = <<":", "1", ".", "7">> /\ TokenOf(c) = TokenAbc) =>
                   c.req = Path_1_7_abc
              /\ c.hpc = "returned" => (c.retPath = c.req /\ c.retErr = "nil")

\* OpenFile from ":1.7" with the token "abc" has returned its path.
C6_Witness ==
    \E i \in CallIds :
        /\ calls[i].sender = <<":", "1", ".", "7">>
        /\ TokenOf(calls[i]) = TokenAbc
        /\ calls[i].hpc = "returned"
        /\ calls[i].retPath = Path_1_7_abc

\* C7, as stated: ReadOne answers uint32 1 in a variant for
\* ("org.freedesktop.appearance", "color-scheme") and "no such object"
\* with no value for every other pair.
C7_OnlyTheOnePair ==
    \A r \in replyOne :
        IF r.namespace = <<"org", ".", "freedesktop", ".", "appearance">>
           /\ r.key = <<"color-scheme">>
        THEN r.value = <<"variant", "uint32(1)">> /\ r.err = "nil"
        ELSE r.value = NilVariantPtr /\ r.err = "ErrMsgNoObject"

\* C8: for the same (namespace, key), Read answers with ReadOne's error
\* and with ReadOne's value in one more variant: a variant of the variant
\* of 1 on a hit, and always one layer deeper than ReadOne.
C8_ReadBoxesReadOne ==
    \A a \in replyOne, b \in replyRead :
        (a.namespace = b.namespace /\ a.key = b.key) =>
            /\ b.err = a.err
            /\ b.value # <<>> /\ Head(b.value) = "variant" /\ Tail(b.value) = a.value
            /\ BoxDepth(b.value) = BoxDepth(a.value) + 1
            /\ a.err = "nil" => b.value = <<"variant", "variant", "uint32(1)">>

\* Both methods have answered for the one setting.
C8_Witness ==
    \E a \in replyOne, b \in replyRead :
        /\ a.namespace = b.namespace /\ a.key = b.key
        /\ a.err = "nil" /\ b.err = "nil"
        /\ BoxDepth(a.value) = 1 /\ BoxDepth(b.value) = 2

\* C9: an OpenURI call returns no object path, only the nil error, and no
\* signal on the bus stems from it, whatever the launcher does.
C9_OpenURISilent ==
    \A i \in CallIds :
        calls[i].kind = "OpenURI" =>
            /\ calls[i].retPath = NoPath
            /\ calls[i].hpc = "returned" => calls[i].retErr = "nil"
            /\ NumSignals(i) = 0
            /\ \A k \in DOMAIN signals : signals[k].path # NoPath /\ IsOpenFile(signals[k].call)

\* Two OpenURI calls have returned and ended, one launcher not found, one
\* exited with a failure.
C9_Witness ==
    \E i, j \in CallIds :
        /\ IsOpenURI(i) /\ calls[i].hpc = "returned" /\ calls[i].task = "done"
        /\ calls[i].helper = "notfound"
        /\ IsOpenURI(j) /\ calls[j].hpc = "returned" /\ calls[j].task = "done"
        /\ calls[j].helper = "exitN"
        /\ signals = <<>>

\* Call i's task meets an operational failure in this step: the helper is
\* not found, cannot be started or exits with a failure, or the Response
\* cannot be sent.
FailureStep(i) ==
    /\ i \in DOMAIN calls /\ i \in DOMAIN calls'
    /\ \/ /\ calls'[i].helper # calls[i].helper
          /\ calls'[i].helper \in {"notfound", "spawnfail", "exitN"}
       \/ /\ calls'[i].sent # calls[i].sent
          /\ calls'[i].sent = "failed"

\* Call i's task ends in this step, after a failure.
FailedEnd(i) ==
    /\ i \in DOMAIN calls /\ i \in DOMAIN calls'
    /\ calls[i].task # "done" /\ calls'[i].task = "done"
    /\ calls'[i].helper # "exit0" \/ calls'[i].sent = "failed"

\* C10: once serving, a step in which a task meets an operational failure
\* leaves the process serving, and a task that ends after a failure has
\* written a log line.
C10_FailuresKeepServing ==
    [][\A i \in 1..MaxCalls :
          /\ (main = "serving" /\ FailureStep(i)) =>
                (main' = "serving" /\ exitCode' = exitCode /\ conn' = "open")
          /\ (main = "serving" /\ FailedEnd(i)) =>
                \E l \in log' \ log : l.call = i]_vars

\* The process is serving after an OpenFile whose Response could not be
\* sent and an OpenURI whose launcher was not found.
C10_Witness ==
    /\ main = "serving"
    /\ \E i, j \in CallIds :
        /\ IsOpenFile(i) /\ calls[i].task = "done" /\ calls[i].sent = "failed"
        /\ IsOpenURI(j) /\ calls[j].task = "done" /\ calls[j].helper = "notfound"

-----------------------------------------------------------------------------
\* The message main prints for each failed reply of the bus library.
AbortMessage(reply) ==
    CASE reply = "connectError" -> "can not connect session bus"
      [] reply = "propsError" -> "can not bind properties"
      [] reply = "error" -> "can not request name"
      [] OTHER -> "name already taken"

BootstrapFailures == {"connectError", "propsError", "error", "Exists"}

\* C11: each bootstrap failure (no bus connection, property export failed,
\* name request failed or name already owned) leaves the process exited with
\* status 1 and "abort: <message>" on stderr, not owning the name; an exited
\* process stays exited and so never serves; and the bus never answers
\* that the process was put in the name's queue.
C11_BootstrapFailureAborts ==
    /\ [](busReply \in BootstrapFailures =>
            /\ main = "exited"
            /\ exitCode = 1
            /\ stderr = <<"abort", AbortMessage(busReply)>>
            /\ ~nameOwned)
    /\ [](main = "exited" => busReply \in BootstrapFailures)
    /\ [](busReply # "InQueue")
    /\ [][main = "exited" => main' = "exited"]_vars

C11_Witness ==
    /\ main = "exited"
    /\ busReply = "Exists"
    /\ stderr = <<"abort", "name already taken">>
    /\ exitCode = 1
    /\ exported = {IfaceOpenURI, IfaceFileChooser, IfaceSettings}

-----------------------------------------------------------------------------
\* The handler of call i has launched its task and not yet returned.
InHandler(i) == i \in CallIds /\ calls[i].hpc = "go"

\* The handler of call i has returned to the bus library.
HasReturned(i) == i \in CallIds /\ calls[i].hpc = "returned"

\* C12: the OpenFile and OpenURI handlers never wait for the helper. While
\* the process lives, the return of a handler that has launched its task
\* is enabled whatever the task and the helper have done, and under fair
\* scheduling of the handlers the call returns (or the process ends) also
\* when the helper never exits. While the file picker runs no Response of
\* its call exists, and the only step that takes the task out of its wait
\* is the exit of the picker: there is no timeout and no cancellation.
C12_HandlersNeverWait ==
    /\ [](\A i \in 1..MaxCalls :
            (Alive /\ InHandler(i)) =>
               IF calls[i].kind = "OpenFile"
               THEN ENABLED OpenFileReturn(i)
               ELSE ENABLED OpenURIReturn(i))
    /\ \A i \in 1..MaxCalls :
         InHandler(i) ~> (~Alive \/ HasReturned(i))
    /\ [](\A i \in CallIds :
            (IsOpenFile(i) /\ calls[i].task = "running") => NumSignals(i) = 0)
    /\ [][\A i \in CallIds :
            (IsOpenFile(i) /\ calls[i].task = "running"
               /\ calls'[i].task # "running")
            => (calls'[i].task = "exited"
                  /\ calls'[i].helper \in {"exit0", "exitN"})]_vars

\* A call has returned its path while its picker still runs, unanswered.
C12_Witness ==
    \E i \in CallIds :
        /\ IsOpenFile(i)
        /\ calls[i].hpc = "returned"
        /\ calls[i].retPath = calls[i].req
        /\ calls[i].task = "running"
        /\ NumSignals(i) = 0

-----------------------------------------------------------------------------
\* Two OpenFile calls whose tasks are both under way.
Overlapping(i, j) ==
    /\ i \in CallIds /\ j \in CallIds /\ i # j
    /\ IsOpenFile(i) /\ IsOpenFile(j)
    /\ Alive

\* C13: nothing orders the tasks of two overlapping OpenFile calls. While
\* one call's picker runs, the other call's task can start a second picker;
\* while both run, either can exit first; and when both tasks are ready to
\* answer, either Response can be emitted first. Hence both orders of the
\* two Responses and two pickers running at once are reachable.
C13_TasksUnordered ==
    \A i \in 1..MaxCalls, j \in 1..MaxCalls :
        Overlapping(i, j) =>
          /\ (calls[i].task = "launched" /\ calls[j].task = "running") =>
                ENABLED (zenityStart(i) /\ calls'[i].task = "running")
          /\ (calls[i].task = "running" /\ calls[j].task = "running") =>
                ENABLED zenityExit(i, PickerOutputs)
          /\ (calls[i].task = "exited" /\ calls[j].task = "exited") =>
                ENABLED (respond(i) /\ Len(signals') = Len(signals) + 1)

\* Two pickers run at the same time.
C13_Witness ==
    /\ Len(calls) = 2
    /\ IsOpenFile(1) /\ IsOpenFile(2)
    /\ calls[1].task = "running"
    /\ calls[2].task = "running"

\* The Response of the first call precedes the Response of the second.
C13_FirstAnswersFirst ==
    /\ Len(signals) = 2
    /\ signals[1].call = 1 /\ signals[2].call = 2
    /\ calls[1].helper = "exit0" /\ calls[2].helper = "exit0"

\* The Response of the second call precedes the Response of the first.
C13_SecondAnswersFirst ==
    /\ Len(signals) = 2
    /\ signals[1].call = 2 /\ signals[2].call = 1
    /\ calls[1].helper = "exit0" /\ calls[2].helper = "exit0"

-----------------------------------------------------------------------------
\* The Response signals of call i, in the order of their emission.
SignalsOf(sigs, i) == SelectSeq(sigs, LAMBDA sig : sig.call = i)

\* What the task of a call has done: its position, the helper's outcome
\* and output, and the outcome of the send.
TaskState(c) == <<c.task, c.helper, c.out, c.sent>>

\* C14: a failed send of the Response is not retried and not followed by
\* another Response. Once the send of call i has failed, its task is over,
\* the failure is logged, no Response of the call is on the bus (the
\* result is lost), and no later step moves the task or emits a signal
\* for the call - in particular no failure Response follows a failed send of
\* the success Response.
C14_NoRetryAfterFailedSend ==
    /\ [](\A i \in CallIds :
            calls[i].sent = "failed" =>
               /\ calls[i].task = "done"
               /\ NumSignals(i) = 0
               /\ SendFailureLogged(i))
    /\ [][\A i \in CallIds :
            calls[i].sent = "failed" =>
               /\ TaskState(calls'[i]) = TaskState(calls[i])
               /\ SignalsOf(signals', i) = SignalsOf(signals, i)]_vars

\* The send of a success Response failed and another call was answered
\* after it.
C14_Witness ==
    \E i \in CallIds, j \in CallIds :
        /\ i # j
        /\ calls[i].sent = "failed"
        /\ calls[i].helper = "exit0"
        /\ calls[i].task = "done"
        /\ NumSignals(i) = 0
        /\ NumSignals(j) = 1

-----------------------------------------------------------------------------
\* The three handler interfaces and the three version properties are on
\* the bus.
AllExported ==
    /\ "org.freedesktop.portal.OpenURI" \in exported
    /\ "org.freedesktop.portal.FileChooser" \in exported
    /\ "org.freedesktop.portal.Settings" \in exported
    /\ \A p \in { <<"org.freedesktop.portal.OpenURI", 4>>,
                  <<"org.freedesktop.portal.FileChooser", 3>>,
                  <<"org.freedesktop.portal.Settings", 1>> } :
          [iface |-> p[1], name |-> "version", value |-> p[2]] \in props
    /\ \A q \in props : q.name = "version" /\ q.iface \in exported

\* C15: the name is claimed only after the handlers and the property table
\* are exported. In every state where the process owns
\* org.freedesktop.portal.Desktop, and already in the state in which it
\* claims it, the OpenURI, FileChooser and Settings interfaces and the
\* version properties 4, 3 and 1 are exported on an open connection.
C15_ExportsBeforeName ==
    /\ [](nameOwned => (AllExported /\ conn = "open"))
    /\ [][(~nameOwned /\ nameOwned') => (AllExported /\ conn = "open")]_vars

C15_Witness ==
    /\ nameOwned
    /\ main = "serving"
    /\ busReply = "PrimaryOwner"
    /\ Cardinality(exported) = 3
    /\ Cardinality(props) = 3

-----------------------------------------------------------------------------
\* The options of call c carry a handle_token that is a string.
HasStringToken(c) ==
    \E e \in c.options : e.key = "handle_token" /\ e.val.sig = "s"

\* C16: an OpenFile call whose options have no handle_token, or one that
\* is no string, fails in the handler on the type assertion, before a
\* Request is constructed: the call has no Request path, no task and no
\* helper, no path is returned to it and no Response is emitted for it.
\* A call with a string token does not fail there.
C16_BadTokenFailsInHandler ==
    \A i \in CallIds :
        IsOpenFile(i) =>
           IF HasStringToken(calls[i])
           THEN calls[i].hpc # "panicked" /\ calls[i].req # NoPath
           ELSE /\ calls[i].hpc = "panicked"
                /\ calls[i].req = NoPath
                /\ calls[i].task = "none"
                /\ calls[i].helper = "none"
                /\ calls[i].sent = "none"
                /\ calls[i].retPath = NoPath
                /\ NumSignals(i) = 0

\* A call without the token has failed after another call was answered.
C16_Witness ==
    \E i \in CallIds :
        /\ IsOpenFile(i)
        /\ calls[i].options = EmptyKv
        /\ calls[i].hpc = "panicked"
        /\ calls[i].task = "none"
        /\ \E j \in CallIds : j # i /\ NumSignals(j) = 1

-----------------------------------------------------------------------------
\* The Response signals emitted on path p, and the OpenFile calls that
\* constructed a Request with path p or have returned p.
SignalsOn(p) == {k \in DOMAIN signals : signals[k].path = p}
CallsWith(p) == {i \in CallIds : IsOpenFile(i) /\ calls[i].req = p}
CallsReturned(p) ==
    {i \in CallIds : IsOpenFile(i) /\ calls[i].hpc = "returned"
                       /\ calls[i].retPath = p}

\* Two calls with the same sender and the same token have the same path.
SameIdentitySamePath ==
    \A i \in CallIds, j \in CallIds :
        (IsOpenFile(i) /\ IsOpenFile(j)
           /\ calls[i].hpc # "panicked" /\ calls[j].hpc # "panicked"
           /\ calls[i].sender = calls[j].sender
           /\ TokenOf(calls[i]) = TokenOf(calls[j]))
        => calls[i].req = calls[j].req

\* C17: every Response is on the path that was returned to the call whose
\* task emitted it, two calls with the same sender and token have the
\* same path, and the Responses on a path are never more than the
\* OpenFile calls that returned that path.
C17_ResponsesOnReturnedPaths ==
    /\ \A k \in DOMAIN signals :
          /\ calls[signals[k].call].hpc = "returned"
          /\ calls[signals[k].call].retPath = signals[k].path
    /\ SameIdentitySamePath
    /\ \A k \in DOMAIN signals :
          Cardinality(SignalsOn(signals[k].path))
             <= Cardinality(CallsReturned(signals[k].path))

\* C17, with the Request of the call in the place of the returned path:
\* every Response is on the path of the Request its own call constructed,
\* which is the path the call returns if it returns, and the Responses on
\* a path are never more than the calls that constructed a Request for it.
C17_ResponsesOnOwnPaths ==
    /\ \A k \in DOMAIN signals :
          /\ IsOpenFile(signals[k].call)
          /\ signals[k].path = calls[signals[k].call].req
          /\ calls[signals[k].call].hpc = "returned"
                => calls[signals[k].call].retPath = signals[k].path
    /\ SameIdentitySamePath
    /\ \A k \in DOMAIN signals :
          Cardinality(SignalsOn(signals[k].path))
             <= Cardinality(CallsWith(signals[k].path))

\* Two calls of one sender with one token were both answered on their one
\* path.
C17_SharedPathAnswered ==
    /\ Len(calls) = 2
    /\ calls[1].req = calls[2].req
    /\ calls[1].req # NoPath
    /\ Cardinality(SignalsOn(calls[1].req)) = 2

-----------------------------------------------------------------------------
\* C18: the path of a Request is fixed at construction: no step changes
\* the Request path, the sender or the options of a call that exists. No
\* operation on a Request and no failure of one closes or replaces the bus
\* connection: it is open in every serving state, and the only step that
\* closes it is the end of run on a failed bootstrap.
C18_PathAndSessionStable ==
    /\ [][\A i \in CallIds :
            /\ i \in DOMAIN calls'
            /\ calls'[i].req = calls[i].req
            /\ calls'[i].sender = calls[i].sender
            /\ calls'[i].options = calls[i].options]_vars
    /\ [](main = "serving" => conn = "open")
    /\ [][conn = "open" =>
            \/ conn' = "open"
            \/ /\ conn' = "closed"
               /\ main \in {"exportProps", "bind"}
               /\ main' = "exited"]_vars

\* The process serves on its open connection after one Response was sent on
\* a Request's path and the send of another failed; both Requests have the
\* path they were constructed with.
C18_Witness ==
    /\ main = "serving"
    /\ conn = "open"
    /\ \E i \in CallIds, j \in CallIds :
          /\ IsOpenFile(i) /\ IsOpenFile(j)
          /\ calls[i].sent = "ok"
          /\ calls[j].sent = "failed"
          /\ calls[i].req = newRequest(calls[i].sender, TokenOf(calls[i]))
          /\ calls[j].req = newRequest(calls[j].sender, TokenOf(calls[j]))

-----------------------------------------------------------------------------
\* C19: try returns nil exactly when the callback ends without a panic; it
\* returns the Exception the callback threw, and catch then runs its
\* callback once; catch does not run when try returned nil; and a panic
\* that is no Exception leaves try again instead of becoming its result.
C19_TryCatchContract ==
    \A t \in tried :
        /\ (t.cb.kind = "none") <=> (~t.propagated /\ t.ret = "nil")
        /\ t.cb.kind = "Exception" =>
              (~t.propagated /\ t.ret = t.cb.what /\ t.caught = 1)
        /\ t.ret = "nil" => t.caught = 0
        /\ t.cb.kind = "runtime" =>
              (t.propagated /\ t.ret = "nil" /\ t.caught = 0)

\* try was applied to a callback that returned, to one that threw and to
\* one that hit a runtime panic.
C19_Witness ==
    /\ \E t \in tried : t.cb.kind = "none" /\ t.ret = "nil"
    /\ \E t \in tried : t.cb.kind = "Exception" /\ t.caught = 1
    /\ \E t \in tried : t.cb.kind = "runtime" /\ t.propagated

=============================================================================
